---- MODULE Spec2Model ----
(***************************************************************************)
(* A state-machine model of elasticsearch-orm (src/elasticsearch-orm.js): *)
(* documents (ModelPrototype), result sets (Results), the query builder   *)
(* (Query), the model statics (ModelStatics) and the external client.     *)
(*                                                                         *)
(* JavaScript values are modelled by tagged records; a call that throws   *)
(* is recorded in the call's `threw` field; a callback invocation is      *)
(* appended to the call's `cbs` field.                                     *)
(***************************************************************************)
EXTENDS Integers, Sequences, FiniteSets, TLC

VARIABLES
    doc,      \* the Document under test: [id, data, orig, execQueue]
    rs,       \* the Results instance under test: [items, execQueue]
    queries,  \* the Query objects created so far: Seq of [query, options]
    log,      \* every request handed to the client, in dispatch order
    pending,  \* indices of log whose answer is still outstanding
    calls,    \* every public call made so far, with what it did
    models,   \* the registry: model name -> the constructor stored under it
    globals   \* the identifiers the host defines on the global object

vars == <<doc, rs, queries, log, pending, calls, models, globals>>

----------------------------------------------------------------------------
(* Bounds of the model *)

MaxCalls == 2     \* public calls recorded in a behaviour
MaxQueries == 1   \* Query objects created in a behaviour
MaxExecs == 1     \* searches and multi-gets dispatched in a behaviour
MaxHits == 2      \* hits carried by one response
MaxMembers == 5   \* documents held by a result set a batch verb runs on
MaxBatches == 1   \* eachLimit runs started in a behaviour

----------------------------------------------------------------------------
(* JavaScript values *)

Fields == {"title", "a"}

Undefined == [t |-> "undefined", s |-> "", k |-> "", sub |-> ""]
Str(x) == [t |-> "string", s |-> x, k |-> "", sub |-> ""]
\* an object with the single own property k, whose value has type `sub`
Obj(key, subType) == [t |-> "object", s |-> "", k |-> key, sub |-> subType]

\* an array of id strings (it has no property besides its indices and length)
StrArr(ids) == [t |-> "array", s |-> ids, k |-> "", sub |-> "string"]

\* a variant of Falsy that tests for undefined only
Falsy_undefinedOnly(v) == v.t = "undefined"

\* !v for the values an id can take (undefined and "" are falsy)
Falsy(v) == v.t = "undefined" \/ (v.t = "string" /\ v.s = "")

\* typeof v[prop] for a value v that is not undefined; reading a property
\* of a string primitive (other than an index or length) gives undefined
TypeOfProp(v, prop) ==
    IF v.t = "object" /\ v.k = prop THEN v.sub ELSE "undefined"

----------------------------------------------------------------------------
(* Documents *)

\* the structural difference of the loaded snapshot and the current fields
ModelPrototype_diff(d) == {f \in Fields : d.orig[f] # d.data[f]}

\* arity of the function exported by deep-diff that line 7 binds to `diff`
diff_length == 4

\* hasChanged reads the module-level `diff` (a function, hence truthy, with
\* a positive arity), not this.diff()
ModelPrototype_hasChanged(d) == diff_length > 0

\* the no-op validate of the first copy: callback() with no error
ModelPrototype_validate(d) == "none"

DocValues == {Undefined, Str("id1"), StrArr("id1,id2"), Obj("a", "string"),
              Obj("a", "number")}

\* a Document as constructed: the snapshot equals the fields, the queue is empty
NewDocument(id, data) ==
    [id |-> id, data |-> data, orig |-> data, execQueue |-> <<>>]

\* a variant of Results that fills the positions from the last hit backwards
Results_reversed(hits) ==
    [items |-> [i \in 1..Len(hits) |->
                   NewDocument(hits[Len(hits) + 1 - i].id, hits[Len(hits) + 1 - i].data)],
     execQueue |-> <<>>]

\* Results: one Document per raw hit, in hit order, and an empty queue
Results(hits) ==
    [items |-> [i \in 1..Len(hits) |-> NewDocument(hits[i].id, hits[i].data)],
     execQueue |-> <<>>]

\* String(path).split(".") for the paths of the model
Split(path) ==
    CASE path = "a" -> <<"a">>
      [] path = "a.title" -> <<"a", "title">>

Paths == {"a", "a.title"}

\* _populate(curObj, parts, callback). The iterator handed to async.eachLimit
\* is not bound, so inside it `this` is the global object: this.model and
\* this._populate are undefined there. remaining.splice(1) truncates `parts`
\* itself to its first segment, so eachLimit (which reads arr.length as it
\* goes) runs the iterator for the first segment only.
\* "ok": callback() fired once with no error; "throw": a TypeError escaped.
ModelPrototype__populate(curObj, parts) ==
    LET prop == parts[1]
        cur == curObj[prop]
    IN IF cur.t = "undefined" THEN "throw"
       ELSE LET ty == TypeOfProp(cur, prop)
            IN IF ty \in {"strarr", "string"} THEN "throw"
               ELSE IF ty = "objarr" THEN "throw"
               ELSE "ok"

----------------------------------------------------------------------------
(* Calls, callbacks and client requests *)

NoResult == [t |-> "undefined", items |-> <<>>, n |-> 0]
ThisResult == [t |-> "this", items |-> <<>>, n |-> 0]

Cb(err, res) == [err |-> err, res |-> res]

NoData == [f \in {} |-> Undefined]

\* the state of an async.eachLimit run before it has started anything
NoBatch ==
    [items |-> <<>>, verb |-> "", completed |-> 0, running |-> 0,
     errored |-> FALSE, inflight |-> {}, late |-> 0, keepsOn |-> FALSE]

\* the record of one public call: what it was given (op, hasCb, data, path,
\* schema),
\* the instance before and after the handler ran, whether it threw, every
\* invocation of its callback, what it returned, the queued operations an
\* exec has started, and the responses a query's handler has seen
CallRec(op, hasCb, inst) ==
    [op |-> op, hasCb |-> hasCb, data |-> NoData, path |-> "", q |-> 0,
     pre |-> inst, post |-> inst, threw |-> FALSE, cbs |-> <<>>,
     ret |-> "undefined", started |-> <<>>, resp |-> <<>>, schema |-> "",
     batch |-> NoBatch, options |-> [upsert |-> FALSE, multi |-> FALSE]]

\* the record of a call whose handler has returned, leaving the instance as inst
Returned(rec, inst) == [rec EXCEPT !.post = inst]

\* callback(err, res) inside a handler: a TypeError when no callback was given
Invoke(rec, err, res) ==
    IF rec.hasCb THEN [rec EXCEPT !.cbs = Append(@, Cb(err, res))]
    ELSE [rec EXCEPT !.threw = TRUE]

NoIds == [depth |-> 0, v |-> <<>>]

NoSort == [k \in {} |-> ""]

\* the options exec reads while it builds the request
RequestOptions(o) ==
    [limit |-> o.limit, skip |-> o.skip, fields |-> o.fields, sort |-> o.sort]

NoOptions == [limit |-> 0, skip |-> 0, fields |-> "", sort |-> NoSort]

\* the options the response handler reads
HandlerOptions(o) == [lean |-> o.lean, populate |-> o.populate, count |-> o.count]

NoHandlerOptions == [lean |-> FALSE, populate |-> "", count |-> FALSE]

\* a request as handed to the client, with the call it belongs to; `q` and
\* `single` are what the completion of a search or multi-get closes over,
\* `o` is this.options as exec read them while building the request, `h`
\* the options the handler would read if it ran when exec is called
BlankRequest ==
    [call |-> 0, type |-> "", id |-> Undefined, body |-> NoData, q |-> 0,
     single |-> FALSE, bodyKind |-> "doc", ids |-> NoIds, from |-> 0, size |-> 0,
     fields |-> "", match |-> "", sort |-> NoSort, o |-> NoOptions,
     member |-> 0, h |-> NoHandlerOptions]

\* client.index / client.update / client.delete for document d
Request(call, type, d) ==
    [BlankRequest EXCEPT !.call = call, !.type = type, !.id = d.id, !.body = d.data]

ReqsOf(c) == Cardinality({i \in 1..Len(log) : log[i].call = c})

Dispatch(req) ==
    /\ log' = Append(log, req)
    /\ pending' = pending \cup {Len(log) + 1}

NoDispatch == UNCHANGED <<log, pending>>

----------------------------------------------------------------------------
(* The deferred queue *)

Name(op) == [kind |-> "name", name |-> op, args |-> <<>>]
Args(a) == [kind |-> "args", name |-> "", args |-> a]

\* Array.prototype.push(op, args): appends each of its two arguments
Push(queue, op, args) == queue \o <<Name(op), Args(args)>>

Methods == {"_populate", "populate", "diff", "hasChanged", "save", "update",
            "remove", "validate", "exec"}

FirstChar(name) ==
    CASE name = "populate" -> "p"
      [] name = "save" -> "s"
      [] name = "update" -> "u"
      [] name = "remove" -> "r"

\* call[0] for a queue element: the first character of a name, the first
\* element of an argument array (undefined when it is empty)
ElementZero(e) ==
    IF e.kind = "name" THEN FirstChar(e.name)
    ELSE IF Len(e.args) = 0 THEN "undefined"
    ELSE IF e.args[1] \in Paths THEN e.args[1]
    ELSE "[object Object]"

\* whether call[1] is an array: the second character of a name is a string,
\* and an argument array holds at most one element, which is never an array
ElementOneIsArray(e) == FALSE

\* this[call[0]].apply(this, call[1].concat([callback])) for one queue
\* element: a TypeError unless call[0] names a method and call[1] is an array
IteratorThrows(e) == ElementZero(e) \notin Methods \/ ~ElementOneIsArray(e)

\* exec(callback): async.eachLimit(this.execQueue, 1, iterator, callback).
\* An empty queue calls back at once (eachLimit defaults a missing callback).
ExecQueue(rec, queue) ==
    IF Len(queue) = 0
    THEN [rec EXCEPT !.cbs = IF rec.hasCb THEN <<Cb("none", NoResult)>> ELSE <<>>,
                     !.ret = "this"]
    ELSE [rec EXCEPT !.threw = IteratorThrows(queue[1])]

----------------------------------------------------------------------------
(* ModelPrototype: the operations of a Document *)

\* the accessor's setter: this.__data[name] = value
SetField(f, v) ==
    /\ doc.data[f] # v
    /\ doc' = [doc EXCEPT !.data[f] = v]
    /\ UNCHANGED <<models, globals, rs, queries, log, pending, calls>>

ModelPrototype_populate(path, hasCb) ==
    /\ Len(calls) < MaxCalls
    /\ LET rec == [CallRec("Document.populate", hasCb, doc) EXCEPT !.path = path]
       IN IF ~hasCb
          THEN /\ doc' = [doc EXCEPT !.execQueue = Push(@, "populate", <<path>>)]
               /\ calls' = Append(calls, Returned([rec EXCEPT !.ret = "this"], doc'))
          ELSE /\ doc' = doc
               /\ calls' = Append(calls, Returned(
                     IF ModelPrototype__populate(doc.data, Split(path)) = "ok"
                     THEN [Invoke(rec, "none", NoResult) EXCEPT !.ret = "this"]
                     ELSE [rec EXCEPT !.threw = TRUE], doc'))
    /\ UNCHANGED <<models, globals, rs, queries, log, pending>>

ModelPrototype_save(hasCb) ==
    /\ Len(calls) < MaxCalls
    /\ doc' = doc
    /\ LET c == Len(calls) + 1
           rec == CallRec("Document.save", hasCb, doc)
       IN IF ~ModelPrototype_hasChanged(doc)
          THEN /\ calls' = Append(calls, Returned(Invoke(rec, "none", NoResult), doc'))
               /\ NoDispatch
          ELSE IF ModelPrototype_validate(doc) # "none"
          THEN /\ calls' = Append(calls, Returned(Invoke(rec, "error", NoResult), doc'))
               /\ NoDispatch
          ELSE /\ calls' = Append(calls, Returned([rec EXCEPT !.ret = "this"], doc'))
               /\ Dispatch(Request(c, "index", doc))
    /\ UNCHANGED <<models, globals, rs, queries>>

ModelPrototype_update(data, hasCb) ==
    /\ Len(calls) < MaxCalls
    /\ doc' = doc
    /\ LET c == Len(calls) + 1
           rec == [CallRec("Document.update", hasCb, doc) EXCEPT !.data = data]
       IN IF Falsy(doc.id)
          THEN /\ calls' = Append(calls, Returned(Invoke(rec, "error", NoResult), doc'))
               /\ NoDispatch
          ELSE IF ~ModelPrototype_hasChanged(doc)
          THEN /\ calls' = Append(calls, Returned(Invoke(rec, "none", NoResult), doc'))
               /\ NoDispatch
          ELSE IF ModelPrototype_validate(doc) # "none"
          THEN /\ calls' = Append(calls, Returned(Invoke(rec, "error", NoResult), doc'))
               /\ NoDispatch
          ELSE /\ calls' = Append(calls, Returned([rec EXCEPT !.ret = "this"], doc'))
               /\ Dispatch(Request(c, "update", doc))
    /\ UNCHANGED <<models, globals, rs, queries>>

ModelPrototype_remove(hasCb) ==
    /\ Len(calls) < MaxCalls
    /\ doc' = doc
    /\ LET c == Len(calls) + 1
           rec == CallRec("Document.remove", hasCb, doc)
       IN IF Falsy(doc.id)
          THEN /\ calls' = Append(calls, Returned(Invoke(rec, "error", NoResult), doc'))
               /\ NoDispatch
          ELSE /\ calls' = Append(calls, Returned([rec EXCEPT !.ret = "this"], doc'))
               /\ Dispatch(Request(c, "delete", doc))
    /\ UNCHANGED <<models, globals, rs, queries>>

ModelPrototype_exec(hasCb) ==
    /\ Len(calls) < MaxCalls
    /\ calls' = Append(calls,
          ExecQueue(CallRec("Document.exec", hasCb, doc), doc.execQueue))
    /\ UNCHANGED <<models, globals, doc, rs, queries, log, pending>>

----------------------------------------------------------------------------
(* Results: the deferred queue of a result set *)

Results_enqueue(op, args) ==
    /\ Len(calls) < MaxCalls
    /\ rs' = [rs EXCEPT !.execQueue = Push(@, op, args)]
    /\ calls' = Append(calls,
          [Returned(CallRec("Results." \o op, FALSE, rs), rs') EXCEPT !.ret = "this",
              !.path = IF op = "populate" THEN args[1] ELSE "",
              !.data = IF op = "update" THEN args[1] ELSE NoData])
    /\ UNCHANGED <<models, globals, doc, queries, log, pending>>

Results_exec(hasCb) ==
    /\ Len(calls) < MaxCalls
    /\ calls' = Append(calls,
          ExecQueue(CallRec("Results.exec", hasCb, rs), rs.execQueue))
    /\ UNCHANGED <<models, globals, doc, rs, queries, log, pending>>

----------------------------------------------------------------------------
(* Results: the batch verbs, async.eachLimit(this, 4, iterator, callback) *)

\* the limit handed to async.eachLimit by the batch verbs and by exec
EachLimit_limit == 4

\* what item[verb](..., callback) does before it returns: "request" when it
\* hands a request to the client, "ok" or "error" when it has called back
\* already, "throw" when a TypeError escapes it
MemberOutcome(verb, item, path) ==
    CASE verb = "save" ->
            IF ~ModelPrototype_hasChanged(item) THEN "ok"
            ELSE IF ModelPrototype_validate(item) # "none" THEN "error"
            ELSE "request"
      [] verb = "update" ->
            IF Falsy(item.id) THEN "error"
            ELSE IF ~ModelPrototype_hasChanged(item) THEN "ok"
            ELSE IF ModelPrototype_validate(item) # "none" THEN "error"
            ELSE "request"
      [] verb = "remove" -> IF Falsy(item.id) THEN "error" ELSE "request"
      [] verb = "populate" ->
            IF ModelPrototype__populate(item.data, Split(path)) = "ok"
            THEN "ok" ELSE "throw"

RequestType(verb) ==
    CASE verb = "save" -> "index"
      [] verb = "update" -> "update"
      [] verb = "remove" -> "delete"

\* the callback eachLimit hands to the iterator, called with err: the first
\* error goes to the aggregate callback, which is then disabled; a success
\* is counted, and the last one calls the aggregate callback
EachLimit_done(rec, err) ==
    IF err # "none"
    THEN IF rec.batch.errored THEN rec
         ELSE [Invoke(rec, err, NoResult) EXCEPT !.batch.errored = TRUE]
    ELSE LET counted == [rec EXCEPT !.batch.completed = @ + 1,
                                    !.batch.running = @ - 1]
         IN IF counted.batch.completed >= Len(rec.batch.items) /\ ~rec.batch.errored
            THEN Invoke(counted, "none", NoResult)
            ELSE counted

\* a variant of EachLimit_goesOn that starts every member at once
EachLimit_goesOn_unlimited(rec) ==
    /\ Len(rec.started) < Len(rec.batch.items)
    /\ rec.batch.errored => rec.batch.keepsOn

\* whether eachLimit starts another member: fewer than the limit are running,
\* a member is left, and no error was seen unless the installed release of
\* async goes on after an error (0.9 does, later releases do not)
EachLimit_goesOn(rec) ==
    /\ rec.batch.running < EachLimit_limit
    /\ Len(rec.started) < Len(rec.batch.items)
    /\ rec.batch.errored => rec.batch.keepsOn

\* replenish: start members while eachLimit goes on. st.rec is the call's
\* record, st.out the members that handed a request to the client
RECURSIVE EachLimit_replenish(_)
EachLimit_replenish(st) ==
    IF st.rec.threw \/ ~EachLimit_goesOn(st.rec) THEN st
    ELSE LET b == st.rec.batch
             k == Len(st.rec.started) + 1
             outcome == MemberOutcome(b.verb, b.items[k], st.rec.path)
             begun == [st.rec EXCEPT !.started = Append(@, k),
                                     !.batch.running = @ + 1,
                                     !.batch.late = IF b.errored THEN @ + 1 ELSE @]
         IN CASE outcome = "throw" ->
                    [st EXCEPT !.rec = [begun EXCEPT !.threw = TRUE]]
              [] outcome = "request" ->
                    EachLimit_replenish(
                       [rec |-> [begun EXCEPT !.batch.inflight = @ \cup {k}],
                        out |-> Append(st.out, k)])
              [] outcome = "ok" ->
                    EachLimit_replenish([st EXCEPT !.rec = EachLimit_done(begun, "none")])
              [] outcome = "error" ->
                    EachLimit_replenish([st EXCEPT !.rec = EachLimit_done(begun, "error")])

\* async.eachLimit(items, 4, iterator, callback): callback() at once for an
\* empty collection, replenish otherwise
EachLimit(rec, items, verb, keepsOn) ==
    LET begun == [rec EXCEPT !.batch = [NoBatch EXCEPT !.items = items,
                                           !.verb = verb, !.keepsOn = keepsOn]]
    IN IF Len(items) = 0
       THEN [rec |-> Invoke(begun, "none", NoResult), out |-> <<>>]
       ELSE EachLimit_replenish([rec |-> begun, out |-> <<>>])

\* the requests the members st.out of call c hand to the client
MemberRequests(c, rec, out) ==
    [j \in 1..Len(out) |->
        [Request(c, RequestType(rec.batch.verb), rec.batch.items[out[j]])
            EXCEPT !.member = out[j]]]

DispatchAll(reqs) ==
    /\ log' = log \o reqs
    /\ pending' = pending \cup (Len(log) + 1 .. Len(log) + Len(reqs))

\* the eachLimit runs started so far
Batches == {c \in 1..Len(calls) : calls[c].batch.verb # ""}

\* the calls that count against MaxBatches: the batch verbs called with a
\* callback, and Model.update, which runs one on its matches
BatchCalls ==
    {c \in 1..Len(calls) :
        \/ calls[c].op = "Model.update"
        \/ calls[c].batch.verb # "" /\ calls[c].q = 0}

\* populate, save, update or remove of a result set, called with a callback
Results_batch(verb, path, data, keepsOn) ==
    /\ Len(calls) < MaxCalls
    /\ Cardinality(BatchCalls) < MaxBatches
    /\ LET c == Len(calls) + 1
           rec == [CallRec("Results." \o verb, TRUE, rs) EXCEPT
                      !.path = path, !.data = data]
           run == EachLimit(rec, rs.items, verb, keepsOn)
       IN /\ calls' = Append(calls,
                IF run.rec.threw THEN run.rec ELSE [run.rec EXCEPT !.ret = "this"])
          /\ DispatchAll(MemberRequests(c, run.rec, run.out))
    /\ UNCHANGED <<models, globals, doc, rs, queries>>

\* the client answers the request of a member: callback(err, this) of the
\* member is the callback eachLimit handed to the iterator
BatchResponse(i, err) ==
    /\ log[i].member # 0
    /\ LET c == log[i].call
           landed == [calls[c] EXCEPT !.batch.inflight = @ \ {log[i].member}]
           done == EachLimit_done(landed, err)
           run == IF err = "none" /\ done.batch.completed < Len(done.batch.items)
                  THEN EachLimit_replenish([rec |-> done, out |-> <<>>])
                  ELSE [rec |-> done, out |-> <<>>]
       IN /\ calls' = [calls EXCEPT ![c] = run.rec]
          /\ log' = log \o MemberRequests(c, run.rec, run.out)
          /\ pending' = (pending \ {i})
                \cup (Len(log) + 1 .. Len(log) + Len(run.out))
    /\ UNCHANGED <<models, globals, doc, rs, queries>>

----------------------------------------------------------------------------
(* The client answers a request *)

\* the completion of client.index / client.update / client.delete:
\* callback(err, this)
WriteResponse(i, err) ==
    /\ log[i].type \in {"index", "update", "delete"}
    /\ log[i].member = 0
    /\ calls' = [calls EXCEPT ![log[i].call] = Invoke(@, err, ThisResult)]
    /\ pending' = pending \ {i}
    /\ UNCHANGED <<models, globals, doc, rs, queries, log>>

----------------------------------------------------------------------------
(* The model registry: module.exports.model of the second copy *)

\* var models = {}
NoModels == [n \in {} |-> 0]

\* the properties every plain object inherits, which `in` also answers for
ObjectPrototype == {"constructor", "toString", "valueOf", "hasOwnProperty"}

ModelNames == {"Post", "User", "constructor"}

\* the schema argument: absent, or a Schema with its props and virtuals
NoSchema == [given |-> FALSE, props |-> {}, virtuals |-> {}]
Schema(props, virtuals) == [given |-> TRUE, props |-> props, virtuals |-> virtuals]

SchemaInputs == {NoSchema, Schema({}, {}), Schema({"title"}, {}),
                 Schema({}, {"full"})}

\* the function `Model` created by the call numbered `by`
Model(by, schema) == [kind |-> "Model", by |-> by, schema |-> schema]

\* modelName in models: own entries and inherited properties alike
In(modelName, registry) ==
    modelName \in DOMAIN registry \/ modelName \in ObjectPrototype

\* models[modelName] = Model
Store(registry, modelName, m) ==
    [k \in DOMAIN registry \cup {modelName} |->
        IF k = modelName THEN m ELSE registry[k]]

\* the body of `if (schema) {...}` up to the store: `_type: name` reads an
\* identifier that no enclosing scope declares, so it is a ReferenceError
\* unless the host defines a global `name`; Object.definePrototype does not
\* exist, so the first declared property or virtual is a TypeError
Compile(schema) ==
    IF "name" \notin globals THEN "ReferenceError"
    ELSE IF schema.props # {} \/ schema.virtuals # {} THEN "TypeError"
    ELSE "ok"

\* model(modelName, schema)
module_model(modelName, schema) ==
    /\ Len(calls) < MaxCalls
    /\ LET c == Len(calls) + 1
           rec == [CallRec("model", FALSE, models) EXCEPT
                      !.path = modelName, !.schema = schema]
           outcome == IF schema.given THEN Compile(schema) ELSE "ok"
           stored == IF schema.given /\ outcome = "ok"
                     THEN Store(models, modelName, Model(c, schema))
                     ELSE models
       IN /\ models' = stored
          /\ calls' = Append(calls,
                IF outcome # "ok" \/ ~In(modelName, stored)
                THEN [Returned(rec, stored) EXCEPT !.threw = TRUE]
                ELSE [Returned(rec, stored) EXCEPT !.ret =
                         IF modelName \in DOMAIN stored THEN "constructor"
                         ELSE "inherited"])
    /\ UNCHANGED <<globals, doc, rs, queries, log, pending>>

RegistryInit ==
    /\ doc = NewDocument(Str("X"), [title |-> Str("A"), a |-> Str("id1")])
    /\ rs = Results(<<>>)
    /\ queries = <<>>
    /\ log = <<>>
    /\ pending = {}
    /\ calls = <<>>
    /\ models = NoModels
    /\ globals \in {{}, {"name"}}

RegistryNext ==
    \E modelName \in ModelNames : \E schema \in SchemaInputs :
        module_model(modelName, schema)

RegistrySpec == RegistryInit /\ [][RegistryNext]_vars

----------------------------------------------------------------------------
(* Documents and result sets: the operations of an instance *)

UpdateData == {NoData, [title |-> Str("B")]}

Hit(id, a) == [id |-> Str(id), data |-> [title |-> Str("A"), a |-> a]]

InitData == {[title |-> Str("A"), a |-> v] : v \in DocValues}

Init ==
    /\ \E id \in {Undefined, Str(""), Str("X")} : \E d \in InitData :
          doc = NewDocument(id, d)
    /\ \E id \in {"X", ""} : rs = Results(<<Hit(id, Str("id1"))>>)
    /\ queries = <<>>
    /\ log = <<>>
    /\ pending = {}
    /\ calls = <<>>
    /\ models = NoModels
    /\ globals = {}

Next ==
    \/ SetField("title", Str("B"))
    \/ \E hasCb \in BOOLEAN : \E path \in Paths : ModelPrototype_populate(path, hasCb)
    \/ \E hasCb \in BOOLEAN : ModelPrototype_save(hasCb)
    \/ \E hasCb \in BOOLEAN : \E data \in UpdateData : ModelPrototype_update(data, hasCb)
    \/ \E hasCb \in BOOLEAN : ModelPrototype_remove(hasCb)
    \/ \E hasCb \in BOOLEAN : ModelPrototype_exec(hasCb)
    \/ \E path \in Paths : Results_enqueue("populate", <<path>>)
    \/ Results_enqueue("save", <<>>)
    \/ \E data \in UpdateData : Results_enqueue("update", <<data>>)
    \/ Results_enqueue("remove", <<>>)
    \/ \E hasCb \in BOOLEAN : Results_exec(hasCb)
    \/ \E i \in pending : \E err \in {"none", "error"} : WriteResponse(i, err)

Spec == Init /\ [][Next]_vars

----------------------------------------------------------------------------
(* Query: criteria, options and the request exec builds *)

\* the id of a criteria: undefined, a string (depth 0) or an array of
\* strings (depth 1); depth counts the arrays wrapped around the strings
IdUndefined == [def |-> FALSE, depth |-> 0, v |-> <<>>]
IdStr(x) == [def |-> TRUE, depth |-> 0, v |-> <<x>>]
IdArr(xs) == [def |-> TRUE, depth |-> 1, v |-> xs]

\* [x]: the one-element array holding x
Wrap(x) == [x EXCEPT !.depth = @ + 1]

TypeofString(x) == x.def /\ x.depth = 0
IsArray(x) == x.def /\ x.depth >= 1
Truthy(x) == x.def /\ (x.depth >= 1 \/ x.v[1] # "")

Criteria(id, title) == [isNull |-> FALSE, id |-> id, title |-> title]
NullCriteria == [isNull |-> TRUE, id |-> IdUndefined, title |-> ""]
EmptyCriteria == Criteria(IdUndefined, "")

CriteriaInputs ==
    {NullCriteria, Criteria(IdUndefined, "A"), Criteria(IdStr("X"), ""),
     Criteria(IdStr(""), ""), Criteria(IdArr(<<"X", "Y">>), "")}

FewCriteria == {Criteria(IdUndefined, "A"), Criteria(IdStr("X"), "")}

IdInputs == {IdStr("X"), IdArr(<<"X", "Y">>)}

DefaultLimit == 10
DefaultSkip == 0

\* new Query(query, model): this.query = query || {}
Query(query) ==
    [query |-> IF query.isNull THEN EmptyCriteria ELSE query,
     options |-> [limit |-> DefaultLimit, skip |-> DefaultSkip, fields |-> "true",
                  lean |-> FALSE, populate |-> "", sort |-> NoSort, count |-> FALSE]]

\* a variant of Single with the array test in place of the string test
Single_fromArray(query) == IsArray(query.id)

\* var single = typeof this.query.id === "string"
Single(query) == TypeofString(query.id)

\* the test that selects the multi-get path: if (this.query.id)
UsesMget(query) == Truthy(query.id)

\* body.ids: _.isArray(this.query.id) ? [this.query.id] : this.query.id
MgetIds(query) == IF IsArray(query.id) THEN Wrap(query.id) ELSE query.id

\* the values of a sort option: strings and numbers
SortStr(x) == [t |-> "string", s |-> x, n |-> 0]
SortNum(x) == [t |-> "number", s |-> "", n |-> x]

SortInputs ==
    {[date |-> SortStr("desc"), title |-> SortStr("asc"), id |-> SortNum(-1)],
     [date |-> SortStr("descending"), title |-> SortStr("-1"), id |-> SortNum(1)]}

\* a variant of SortDirection that knows the value "desc" only
SortDirection_descOnly(val) == IF val = SortStr("desc") THEN "desc" ELSE "asc"

\* lines 366-368: val === "desc" || val === "descending" || val === -1
\* gives "desc", anything else gives "asc"
SortDirection(val) ==
    IF val = SortStr("desc") \/ val = SortStr("descending") \/ val = SortNum(-1)
    THEN "desc" ELSE "asc"

SortOf(sort) == [k \in DOMAIN sort |-> SortDirection(sort[k])]

\* the request Query.prototype.exec hands to client[searchType]: from, size
\* and fields always; body is {query: {match}, sort}, replaced by {ids} when
\* the criteria's id is truthy
ExecRequest(c, qi, q) ==
    [BlankRequest EXCEPT
        !.call = c, !.q = qi, !.single = Single(q.query), !.o = RequestOptions(q.options),
        !.h = HandlerOptions(q.options),
        !.type = IF UsesMget(q.query) THEN "mget" ELSE "search",
        !.from = q.options.skip, !.size = q.options.limit,
        !.fields = q.options.fields,
        !.bodyKind = IF UsesMget(q.query) THEN "ids" ELSE "query",
        !.ids = IF UsesMget(q.query) THEN MgetIds(q.query) ELSE NoIds,
        !.match = IF UsesMget(q.query) THEN "" ELSE q.query,
        !.sort = IF UsesMget(q.query) THEN NoSort ELSE SortOf(q.options.sort)]

----------------------------------------------------------------------------
(* Query: what exec's response handler hands to the callback *)

NumberResult(n) == [t |-> "number", items |-> <<>>, n |-> n]
ResultsResult(r) == [t |-> "results", items |-> r.items, n |-> 0]
RawResult(hits) == [t |-> "raw", items |-> hits, n |-> 0]

\* results[0]: undefined for an empty collection (and for a number)
ElementAtZero(res) ==
    IF res.t \in {"results", "raw"} /\ Len(res.items) > 0
    THEN [t |-> IF res.t = "results" THEN "document" ELSE "hit",
          items |-> <<res.items[1]>>, n |-> 0]
    ELSE NoResult

\* a variant of MapHits that tests lean and populate before the count flag
MapHits_wrapFirst(o, hits, total) ==
    IF ~o.lean \/ o.populate # "" THEN ResultsResult(Results(hits))
    ELSE IF o.count THEN NumberResult(total)
    ELSE RawResult(hits)

\* lines 389-397: the total when counting; a Results unless lean without
\* populate; the raw hits otherwise
MapHits(o, hits, total) ==
    IF o.count THEN NumberResult(total)
    ELSE IF ~o.lean \/ o.populate # "" THEN ResultsResult(Results(hits))
    ELSE RawResult(hits)

\* whether item.populate(path, callback) throws for some item of the fan-out
\* (every callback of the fan-out fires synchronously and without an error,
\* so each item is reached unless an earlier one throws)
PopulateFanOutThrows(items, path) ==
    \E i \in 1..Len(items) :
        ModelPrototype__populate(items[i].data, Split(path)) = "throw"

\* a variant of Failed for a handler without the error test
Failed_never(err) == FALSE

\* if (err): the client reported an error
Failed(err) == err # "none"

\* the response handler of exec (lines 384-409), reading this.options as
\* they are when the response arrives
Query_exec_response(rec, single0, o, err, hits, total) ==
    LET seen == [rec EXCEPT !.resp = Append(@,
                    [err |-> err, hits |-> hits, total |-> total,
                     options |-> HandlerOptions(o)])]
        results == MapHits(o, hits, total)
        single == IF o.count THEN FALSE ELSE single0
        final == IF single THEN ElementAtZero(results) ELSE results
        \* async.eachLimit(results, 4, item.populate, function(err) {...}):
        \* the aggregate callback hands (err, final) to exec's callback
        fanOut == EachLimit([seen EXCEPT !.path = o.populate], results.items,
                            "populate", FALSE).rec
    IN IF Failed(err) THEN Invoke(seen, err, NoResult)
       ELSE IF o.populate # "" /\ ~o.count
       THEN IF fanOut.threw \/ ~fanOut.hasCb THEN fanOut
            ELSE [fanOut EXCEPT !.cbs = Append(seen.cbs, Cb(fanOut.cbs[Len(fanOut.cbs)].err, final))]
       ELSE Invoke(seen, err, final)

----------------------------------------------------------------------------
(* ModelStatics and the chain methods of Query *)

\* callback ? q.exec(callback) : q, for a Query q just created or changed
ExecIfCallback(op, hasCb, qi, q) ==
    IF hasCb
    THEN /\ Len(calls) < MaxCalls
         /\ Len(log) < MaxExecs
         /\ calls' = Append(calls,
               [CallRec(op, TRUE, q.query) EXCEPT !.q = qi, !.ret = "query"])
         /\ Dispatch(ExecRequest(Len(calls) + 1, qi, q))
    ELSE /\ UNCHANGED calls
         /\ NoDispatch

\* a static that creates a Query: the call is recorded with or without callback
CreateQuery(op, hasCb, q) ==
    /\ Len(calls) < MaxCalls
    /\ Len(queries) < MaxQueries
    /\ hasCb => Len(log) < MaxExecs
    /\ queries' = Append(queries, q)
    /\ calls' = Append(calls,
          [CallRec(op, hasCb, q.query) EXCEPT !.q = Len(queries) + 1, !.ret = "query"])
    /\ IF hasCb THEN Dispatch(ExecRequest(Len(calls) + 1, Len(queries) + 1, q))
       ELSE NoDispatch
    /\ UNCHANGED <<models, globals, doc, rs>>

ModelStatics_find(query, hasCb) == CreateQuery("Model.find", hasCb, Query(query))

ModelStatics_findOne(query, hasCb) ==
    CreateQuery("Model.findOne", hasCb, [Query(query) EXCEPT !.options.limit = 1])

ModelStatics_findById(id, hasCb) ==
    CreateQuery("Model.findById", hasCb, Query(Criteria(id, "")))

\* count: function(query, callback) sets the flag and tests its SECOND
\* parameter; ModelStatics.count calls q.count(callback), so the callback
\* arrives as `query` and exec is never reached
ModelStatics_count(query, hasCb) ==
    /\ Len(calls) < MaxCalls
    /\ Len(queries) < MaxQueries
    /\ queries' = Append(queries,
          IF hasCb THEN [Query(query) EXCEPT !.options.count = TRUE] ELSE Query(query))
    /\ calls' = Append(calls,
          [CallRec("Model.count", hasCb, Query(query).query) EXCEPT
              !.q = Len(queries) + 1, !.ret = "query"])
    /\ NoDispatch
    /\ UNCHANGED <<models, globals, doc, rs>>

\* search: callback ? this.exec(callback) : this, where `this` is the model
\* constructor, which has no exec: a TypeError when a callback is given
ModelStatics_search(hasCb) ==
    /\ Len(calls) < MaxCalls
    /\ calls' = Append(calls,
          [CallRec("Model.search", hasCb, EmptyCriteria) EXCEPT
              !.threw = hasCb, !.ret = IF hasCb THEN "undefined" ELSE "this"])
    /\ UNCHANGED <<models, globals, doc, rs, queries, log, pending>>

Query_sort(qi, options, hasCb) ==
    /\ queries' = [queries EXCEPT ![qi].options.sort = options]
    /\ ExecIfCallback("Query.sort", hasCb, qi, queries'[qi])
    /\ UNCHANGED <<models, globals, doc, rs>>

Query_lean(qi, hasCb) ==
    /\ queries' = [queries EXCEPT ![qi].options.lean = TRUE]
    /\ ExecIfCallback("Query.lean", hasCb, qi, queries'[qi])
    /\ UNCHANGED <<models, globals, doc, rs>>

Query_populate(qi, options, hasCb) ==
    /\ queries' = [queries EXCEPT ![qi].options.populate = options]
    /\ ExecIfCallback("Query.populate", hasCb, qi, queries'[qi])
    /\ UNCHANGED <<models, globals, doc, rs>>

\* count(query, callback): `second` says whether a callback was passed as the
\* second argument; a callback passed alone is the `query` parameter
Query_count(qi, first, second) ==
    /\ queries' = [queries EXCEPT ![qi].options.count = TRUE]
    /\ IF first /\ ~second
       THEN /\ Len(calls) < MaxCalls
            /\ calls' = Append(calls,
                  [CallRec("Query.count", TRUE, queries[qi].query) EXCEPT
                      !.q = qi, !.ret = "query"])
            /\ NoDispatch
       ELSE ExecIfCallback("Query.count", second, qi, queries'[qi])
    /\ UNCHANGED <<models, globals, doc, rs>>

Query_exec(qi, hasCb) ==
    /\ Len(calls) < MaxCalls
    /\ Len(log) < MaxExecs
    /\ calls' = Append(calls,
          [CallRec("Query.exec", hasCb, queries[qi].query) EXCEPT !.q = qi, !.ret = "query"])
    /\ Dispatch(ExecRequest(Len(calls) + 1, qi, queries[qi]))
    /\ UNCHANGED <<models, globals, doc, rs, queries>>

\* the client answers a search or a multi-get
ExecResponse(i, err, hits, total) ==
    /\ log[i].type \in {"search", "mget"}
    /\ calls[log[i].call].op # "Model.update"
    /\ calls' = [calls EXCEPT ![log[i].call] =
          Query_exec_response(@, log[i].single, queries[log[i].q].options,
                              err, hits, total)]
    /\ pending' = pending \ {i}
    /\ UNCHANGED <<models, globals, doc, rs, queries, log>>

\* update(query, data, options, callback): options.multi ? this.find(query,
\* processResults) : this.findOne(query, processResults)
ModelStatics_update(query, data, options) ==
    /\ Len(calls) < MaxCalls
    /\ Len(queries) < MaxQueries
    /\ Len(log) < MaxExecs
    /\ Cardinality(BatchCalls) < MaxBatches
    /\ LET q == IF options.multi THEN Query(query)
                ELSE [Query(query) EXCEPT !.options.limit = 1]
       IN /\ queries' = Append(queries, q)
          /\ calls' = Append(calls,
                [CallRec("Model.update", TRUE, q.query) EXCEPT
                    !.q = Len(queries) + 1, !.data = data, !.options = options,
                    !.ret = "query"])
          /\ Dispatch(ExecRequest(Len(calls) + 1, Len(queries) + 1, q))
    /\ UNCHANGED <<models, globals, doc, rs>>

\* processResults(err, results), the callback Model.update hands to find or
\* findOne; rec is the record of the Model.update call, c its number.
\* results.length is read first: a TypeError when results is undefined.
\* A Document has no length, so it goes to results.update(data, callback).
ProcessResults(c, rec, err, results, keepsOn) ==
    IF results.t = "undefined"
    THEN [rec |-> [rec EXCEPT !.threw = TRUE], reqs |-> <<>>]
    ELSE IF results.t = "results" /\ Len(results.items) = 0
    THEN IF rec.options.upsert
         THEN \* this.create(data, callback): new this(data), then save
              LET model == NewDocument(Undefined, rec.data)
              IN IF ~ModelPrototype_hasChanged(model)
                 THEN [rec |-> Invoke(rec, "none", NoResult), reqs |-> <<>>]
                 ELSE IF ModelPrototype_validate(model) # "none"
                 THEN [rec |-> Invoke(rec, "error", NoResult), reqs |-> <<>>]
                 ELSE [rec |-> rec, reqs |-> <<Request(c, "index", model)>>]
         ELSE [rec |-> Invoke(rec, "none", results), reqs |-> <<>>]
    ELSE IF results.t = "results"
    THEN \* Results.prototype.update(data, callback)
         LET run == EachLimit(rec, results.items, "update", keepsOn)
         IN [rec |-> run.rec, reqs |-> MemberRequests(c, run.rec, run.out)]
    ELSE \* ModelPrototype.update(data, callback) of the one Document
         LET item == results.items[1]
         IN IF Falsy(item.id)
            THEN [rec |-> Invoke(rec, "error", NoResult), reqs |-> <<>>]
            ELSE IF ~ModelPrototype_hasChanged(item)
            THEN [rec |-> Invoke(rec, "none", NoResult), reqs |-> <<>>]
            ELSE IF ModelPrototype_validate(item) # "none"
            THEN [rec |-> Invoke(rec, "error", NoResult), reqs |-> <<>>]
            ELSE [rec |-> rec, reqs |-> <<Request(c, "update", item)>>]

\* the client answers the lookup of a Model.update: exec's handler runs with
\* processResults as its callback
UpdateLookupResponse(i, err, hits, total, keepsOn) ==
    /\ log[i].type \in {"search", "mget"}
    /\ calls[log[i].call].op = "Model.update"
    /\ LET c == log[i].call
           \* what exec's handler hands to its callback
           handed == Query_exec_response([calls[c] EXCEPT !.cbs = <<>>],
                        log[i].single, queries[log[i].q].options, err, hits, total)
           run == IF handed.threw
                  THEN [rec |-> handed, reqs |-> <<>>]
                  ELSE ProcessResults(c, [handed EXCEPT !.cbs = <<>>],
                          handed.cbs[1].err, handed.cbs[1].res, keepsOn)
       IN /\ calls' = [calls EXCEPT ![c] = run.rec]
          /\ log' = log \o run.reqs
          /\ pending' = (pending \ {i})
                \cup (Len(log) + 1 .. Len(log) + Len(run.reqs))
    /\ UNCHANGED <<models, globals, doc, rs, queries>>

----------------------------------------------------------------------------
(* The query builder and the model statics *)

HitPool == {Hit("X", Str("id1")), Hit("Y", Undefined)}

\* the hit lists a response can carry: up to MaxHits hits
HitLists == UNION {[1..n -> HitPool] : n \in 0..MaxHits}

QueryInit ==
    /\ doc = NewDocument(Str("X"), [title |-> Str("A"), a |-> Str("id1")])
    /\ rs = Results(<<>>)
    /\ queries = <<>>
    /\ log = <<>>
    /\ pending = {}
    /\ calls = <<>>
    /\ models = NoModels
    /\ globals = {}

QueryNext ==
    \/ \E query \in CriteriaInputs : \E hasCb \in BOOLEAN : ModelStatics_find(query, hasCb)
    \/ \E query \in FewCriteria : \E hasCb \in BOOLEAN : ModelStatics_findOne(query, hasCb)
    \/ \E id \in IdInputs : \E hasCb \in BOOLEAN : ModelStatics_findById(id, hasCb)
    \/ \E query \in FewCriteria : \E hasCb \in BOOLEAN : ModelStatics_count(query, hasCb)
    \/ \E hasCb \in BOOLEAN : ModelStatics_search(hasCb)
    \/ \E qi \in 1..Len(queries) : \E options \in SortInputs : \E hasCb \in BOOLEAN :
          Query_sort(qi, options, hasCb)
    \/ \E qi \in 1..Len(queries) : \E hasCb \in BOOLEAN : Query_lean(qi, hasCb)
    \/ \E qi \in 1..Len(queries) : \E hasCb \in BOOLEAN : Query_populate(qi, "a", hasCb)
    \/ \E qi \in 1..Len(queries) : \E first, second \in BOOLEAN : Query_count(qi, first, second)
    \/ \E qi \in 1..Len(queries) : \E hasCb \in BOOLEAN : Query_exec(qi, hasCb)
    \/ \E i \in pending : ExecResponse(i, "error", <<>>, 0)
    \/ \E i \in pending : \E hits \in HitLists : \E extra \in 0..1 :
          ExecResponse(i, "none", hits, Len(hits) + extra)

QuerySpec == QueryInit /\ [][QueryNext]_vars

----------------------------------------------------------------------------
(* The batch verbs of a result set *)

\* a result set of n documents; the one at position `bad` has no id
Members(n, bad) ==
    [i \in 1..n |-> IF i = bad THEN Hit("", Str("id1")) ELSE Hit("X", Str("id1"))]

BatchInputs ==
    {Members(0, 0), Members(MaxMembers, 0), Members(MaxMembers, 2),
     <<Hit("X", Str("id1")), Hit("Y", Undefined)>>}

BatchInit ==
    /\ doc = NewDocument(Str("X"), [title |-> Str("A"), a |-> Str("id1")])
    /\ \E hits \in BatchInputs : rs = Results(hits)
    /\ queries = <<>>
    /\ log = <<>>
    /\ pending = {}
    /\ calls = <<>>
    /\ models = NoModels
    /\ globals = {}

BatchNext ==
    \/ \E verb \in {"save", "remove"} : \E keepsOn \in BOOLEAN :
          Results_batch(verb, "", NoData, keepsOn)
    \/ \E keepsOn \in BOOLEAN : Results_batch("update", "", [title |-> Str("B")], keepsOn)
    \/ \E keepsOn \in BOOLEAN : Results_batch("populate", "a", NoData, keepsOn)
    \/ \E i \in pending : \E err \in {"none", "error"} : BatchResponse(i, err)
    \/ ModelStatics_find(Criteria(IdUndefined, "A"), FALSE)
    \/ \E qi \in 1..Len(queries) : Query_populate(qi, "a", TRUE)
    \/ \E i \in pending : ExecResponse(i, "error", <<>>, 0)
    \/ \E i \in pending : \E hits \in BatchInputs : ExecResponse(i, "none", hits, Len(hits))
    \/ \E query \in FewCriteria : \E upsert, multi \in BOOLEAN :
          ModelStatics_update(query, [title |-> Str("B")],
                              [upsert |-> upsert, multi |-> multi])
    \/ \E i \in pending : \E keepsOn \in BOOLEAN :
          UpdateLookupResponse(i, "error", <<>>, 0, keepsOn)
    \/ \E i \in pending : \E hits \in BatchInputs : \E keepsOn \in BOOLEAN :
          UpdateLookupResponse(i, "none", hits, Len(hits), keepsOn)
    \/ \E i \in pending : \E err \in {"none", "error"} : WriteResponse(i, err)

BatchSpec == BatchInit /\ [][BatchNext]_vars

----------------------------------------------------------------------------
(* Claims about documents and result sets, checked under Spec *)

Calls == 1..Len(calls)

HasNoId(d) == d.id \in {Undefined, Str("")}

\* everything of an instance but its queue
Rest(inst) == [inst EXCEPT !.execQueue = <<>>]

QueueVerbs == {"Document.populate", "Document.save", "Document.update",
               "Document.remove", "Results.populate", "Results.save",
               "Results.update", "Results.remove"}

\* C1: save(callback) on a document on which no field changed since load
\* calls back with no error and issues no write request.
C1_SaveUnchangedIssuesNoWrite ==
    \A c \in Calls :
        (calls[c].op = "Document.save" /\ calls[c].hasCb
            /\ ModelPrototype_diff(calls[c].pre) = {})
        => (ReqsOf(c) = 0 /\ calls[c].cbs = <<Cb("none", NoResult)>>)

\* C2: update(data, callback) and remove(callback) on a document without an
\* id call back exactly once, with an error, issue no client request and
\* leave the document's fields as they were.
C2_NoIdFailsWithoutRequest ==
    \A c \in Calls :
        (calls[c].op \in {"Document.update", "Document.remove"}
            /\ calls[c].hasCb /\ HasNoId(calls[c].pre))
        => /\ Len(calls[c].cbs) = 1
           /\ calls[c].cbs[1].err = "error"
           /\ ~calls[c].threw
           /\ ReqsOf(c) = 0
           /\ calls[c].post.data = calls[c].pre.data
           /\ calls[c].post.orig = calls[c].pre.orig

C2_Witness ==
    \E c, d \in Calls :
        /\ calls[c].op = "Document.update" /\ calls[d].op = "Document.remove"
        /\ calls[c].hasCb /\ calls[d].hasCb
        /\ HasNoId(calls[c].pre) /\ HasNoId(calls[d].pre)
        /\ calls[c].data # NoData
        /\ Len(calls[c].cbs) = 1 /\ Len(calls[d].cbs) = 1

Merged(cur, data) == [f \in Fields |-> IF f \in DOMAIN data THEN data[f] ELSE cur[f]]

\* C3: update(data, callback) on a document with an id merges data onto the
\* current fields, and issues the update request exactly when the merged
\* fields differ from the original snapshot.
C3_UpdateMergesThenDecides ==
    \A c \in Calls :
        (calls[c].op = "Document.update" /\ calls[c].hasCb
            /\ ~HasNoId(calls[c].pre) /\ ~calls[c].threw)
        => /\ \A k \in DOMAIN calls[c].data :
                 calls[c].post.data[k] = calls[c].data[k]
           /\ (ReqsOf(c) = 1) <=>
                 (Merged(calls[c].pre.data, calls[c].data) # calls[c].pre.orig)
           /\ ReqsOf(c) <= 1

\* C8: whenever a callback is invoked with an error, its result argument is
\* undefined.
C8_ErrorCarriesNoResult ==
    \A c \in Calls : \A i \in 1..Len(calls[c].cbs) :
        calls[c].cbs[i].err = "error" => calls[c].cbs[i].res.t = "undefined"

\* C9: populate, save, update or remove without a callback appends exactly
\* one (operation, arguments) entry to the instance's queue, returns the
\* instance, issues no client request and changes nothing else.
C9_NoCallbackEnqueuesOneEntry ==
    \A c \in Calls :
        (calls[c].op \in QueueVerbs /\ ~calls[c].hasCb)
        => /\ Len(calls[c].post.execQueue) = Len(calls[c].pre.execQueue) + 1
           /\ Rest(calls[c].post) = Rest(calls[c].pre)
           /\ calls[c].ret = "this"
           /\ ~calls[c].threw
           /\ ReqsOf(c) = 0

InstanceOf(op) == IF op \in {"Document.populate", "Document.save", "Document.update",
                             "Document.remove", "Document.exec"}
                  THEN "Document" ELSE "Results"

\* the operations queued on the instance of call c before c, in call order
Enqueued(c) ==
    LET before == SubSeq(calls, 1, c - 1)
        queued(r) == r.op \in QueueVerbs /\ ~r.hasCb
                        /\ InstanceOf(r.op) = InstanceOf(calls[c].op)
        Sel == SelectSeq(before, queued)
    IN [i \in 1..Len(Sel) |-> Sel[i].op]

\* C10: exec(callback) replays the queued operations in enqueue order, one
\* at a time: it does not throw, what it has started is a prefix of what was
\* queued, and the first queued operation is started when exec returns.
C10_ExecReplaysInOrder ==
    \A c \in Calls :
        (calls[c].op \in {"Document.exec", "Results.exec"} /\ calls[c].hasCb)
        => /\ ~calls[c].threw
           /\ Len(calls[c].started) <= Len(Enqueued(c))
           /\ \A i \in 1..Len(calls[c].started) : calls[c].started[i] = Enqueued(c)[i]
           /\ Enqueued(c) # <<>> => Len(calls[c].started) >= 1

\* a queued update or remove reports an error as soon as it is replayed on
\* a result set holding a document without an id
FailsWhenReplayed(op, inst) ==
    /\ op \in {"Results.update", "Results.remove"}
    /\ \E i \in 1..Len(inst.items) : HasNoId(inst.items[i])

\* C11: when the first queued operation reports an error during exec's
\* replay, exec does not throw, its callback receives the error exactly
\* once, and no queued operation after the failing one is started.
C11_FirstErrorAbortsReplay ==
    \A c \in Calls :
        (calls[c].op = "Results.exec" /\ calls[c].hasCb
            /\ Enqueued(c) # <<>>
            /\ FailsWhenReplayed(Enqueued(c)[1], calls[c].pre))
        => /\ ~calls[c].threw
           /\ Len(calls[c].cbs) = 1
           /\ calls[c].cbs[1].err = "error"
           /\ calls[c].started = <<Enqueued(c)[1]>>

\* the calls populate(path, callback) on the document
Populates(c) == calls[c].op = "Document.populate" /\ calls[c].hasCb

\* C17: populate("a", callback) on a document whose field a holds one
\* foreign id does not throw and issues one fetch by id (a multi-get); when
\* it calls back without an error the field holds the fetched document, and
\* when it calls back with an error the field still holds the id.
C17_SingleIdIsFetched ==
    \A c \in Calls :
        (Populates(c) /\ calls[c].path = "a" /\ calls[c].pre.data["a"].t = "string")
        => /\ ~calls[c].threw
           /\ ReqsOf(c) = 1
           /\ \A i \in 1..Len(log) : log[i].call = c => log[i].type = "mget"
           /\ \A i \in 1..Len(calls[c].cbs) :
                 IF calls[c].cbs[i].err = "none"
                 THEN doc.data["a"].t = "object"
                 ELSE doc.data["a"] = calls[c].pre.data["a"]

\* C18: populate("a", callback) on a document whose field a holds a
\* sequence of foreign ids does not throw and issues one fetch for the ids;
\* when it calls back with an error the sequence is as it was.
C18_IdSequenceIsFetched ==
    \A c \in Calls :
        (Populates(c) /\ calls[c].path = "a" /\ calls[c].pre.data["a"].t = "array")
        => /\ ~calls[c].threw
           /\ ReqsOf(c) = 1
           /\ \A i \in 1..Len(calls[c].cbs) :
                 calls[c].cbs[i].err = "error"
                 => doc.data["a"] = calls[c].pre.data["a"]

\* C19: populate on a path whose leaf holds a foreign id calls back without
\* an error only if a fetch of the call was answered with a hit: when the
\* fetch yields no hit the callback receives an error.
C19_MissingIdIsAnError ==
    \A c \in Calls :
        (Populates(c) /\ calls[c].path = "a" /\ calls[c].pre.data["a"].t = "string")
        => \A i \in 1..Len(calls[c].cbs) :
              calls[c].cbs[i].err = "none"
              => \E r \in 1..Len(calls[c].resp) :
                    /\ calls[c].resp[r].err = "none"
                    /\ Len(calls[c].resp[r].hits) >= 1

\* C20: populate(path, callback) ends for every path and every shape of the
\* document: it does not throw, and once no request of the call is
\* outstanding the callback has been invoked exactly once.
C20_PopulateCallsBackOnce ==
    \A c \in Calls :
        Populates(c)
        => /\ ~calls[c].threw
           /\ Len(calls[c].cbs) <= 1
           /\ (\A i \in pending : log[i].call # c) => Len(calls[c].cbs) = 1

----------------------------------------------------------------------------
(* Claims about queries and model statics, checked under QuerySpec *)

IsScalarString(id) == id.def /\ id.depth = 0

\* the calls that ran Query.prototype.exec with a callback and whose
\* response arrived without an error
Answered(c) ==
    /\ calls[c].q # 0 /\ calls[c].hasCb
    /\ calls[c].resp # <<>> /\ calls[c].resp[1].err = "none"

\* C4: a query whose criteria id is a scalar string and which is not a count
\* resolves to the first element of the hit collection, and to undefined,
\* with no error, when there are no hits; never to a collection.
C4_ScalarIdResolvesToFirstHit ==
    \A c \in Calls :
        (Answered(c) /\ IsScalarString(calls[c].pre.id)
            /\ ~calls[c].resp[1].options.count /\ calls[c].cbs # <<>>)
        => LET res == calls[c].cbs[1].res
               hits == calls[c].resp[1].hits
           IN /\ calls[c].cbs[1].err = "none"
              /\ IF hits = <<>> THEN res.t = "undefined"
                 ELSE /\ res.t \in {"document", "hit"}
                      /\ Len(res.items) = 1
                      /\ res.items[1].id = hits[1].id
                      /\ res.items[1].data = hits[1].data

C4_Witness ==
    \E c \in Calls :
        /\ Answered(c) /\ IsScalarString(calls[c].pre.id)
        /\ calls[c].op = "Model.findOne"
        /\ Len(calls[c].resp[1].hits) = 2
        /\ calls[c].cbs # <<>> /\ calls[c].cbs[1].res.t = "document"

\* C12: a successful exec that is not a count delivers, when lean is false
\* or a populate path is set, a result set holding one Document per raw hit,
\* in hit order and of the same length (its first Document when the id is a
\* scalar string); when lean is true and no populate path is set it delivers
\* the raw hits themselves (the first raw hit when the id is a scalar string).
C12_HitsWrappedUnlessLean ==
    \A c \in Calls :
        (Answered(c) /\ ~calls[c].resp[1].options.count /\ calls[c].cbs # <<>>)
        => LET o == calls[c].resp[1].options
               hits == calls[c].resp[1].hits
               res == calls[c].cbs[1].res
               wrapped == ~o.lean \/ o.populate # ""
               Document(i) == NewDocument(hits[i].id, hits[i].data)
           IN /\ calls[c].cbs[1].err = "none"
              /\ IF IsScalarString(calls[c].pre.id)
                 THEN hits # <<>> =>
                        /\ res.t = (IF wrapped THEN "document" ELSE "hit")
                        /\ res.items = <<IF wrapped THEN Document(1) ELSE hits[1]>>
                 ELSE IF wrapped
                 THEN /\ res.t = "results"
                      /\ Len(res.items) = Len(hits)
                      /\ \A i \in 1..Len(hits) : res.items[i] = Document(i)
                 ELSE res.t = "raw" /\ res.items = hits

C12_Witness ==
    \E c \in Calls :
        /\ Answered(c) /\ ~calls[c].resp[1].options.count
        /\ calls[c].pre.id = IdArr(<<"X", "Y">>)
        /\ ~calls[c].resp[1].options.lean
        /\ Len(calls[c].resp[1].hits) = 2
        /\ calls[c].resp[1].hits[1] # calls[c].resp[1].hits[2]
        /\ calls[c].cbs # <<>> /\ calls[c].cbs[1].res.t = "results"

\* C13: the sort of a search request has exactly the keys of the sort
\* option, each mapped to "desc" exactly when its value is "desc",
\* "descending" or -1, and to "asc" otherwise.
C13_SortIsNormalised ==
    \A i \in 1..Len(log) :
        log[i].type = "search"
        => /\ DOMAIN log[i].sort = DOMAIN log[i].o.sort
           /\ \A k \in DOMAIN log[i].sort :
                 /\ log[i].sort[k] \in {"asc", "desc"}
                 /\ log[i].sort[k] = "desc" <=>
                       log[i].o.sort[k] \in
                          {SortStr("desc"), SortStr("descending"), SortNum(-1)}

C13_Witness ==
    \E i \in 1..Len(log) :
        /\ log[i].type = "search"
        /\ log[i].o.sort = [date |-> SortStr("descending"), title |-> SortStr("-1"),
                             id |-> SortNum(1)]
        /\ log[i].sort = [date |-> "desc", title |-> "asc", id |-> "asc"]

\* the calls that ran Query.prototype.exec
RanExec(c) ==
    \/ calls[c].op = "Query.exec"
    \/ /\ calls[c].op \in {"Model.find", "Model.findOne", "Model.findById",
                           "Query.sort", "Query.lean", "Query.populate"}
       /\ calls[c].hasCb

\* C14: every exec dispatches exactly one request: a multi-get when the
\* criteria carries an id field, otherwise a search with from = skip,
\* size = limit and match = the criteria (the empty object for a null
\* criteria).
C14_ExecDispatchesOneRequest ==
    \A c \in Calls :
        RanExec(c)
        => /\ ReqsOf(c) = 1
           /\ \A i \in 1..Len(log) :
                 log[i].call = c
                 => IF calls[c].pre.id.def
                    THEN log[i].type = "mget"
                    ELSE /\ log[i].type = "search"
                         /\ log[i].from = log[i].o.skip
                         /\ log[i].size = log[i].o.limit
                         /\ log[i].match = calls[c].pre

\* the calls whose exec request the client answered with an error
Refused(c) ==
    /\ calls[c].q # 0 /\ calls[c].hasCb
    /\ calls[c].resp # <<>> /\ calls[c].resp[1].err = "error"

\* C15: when the client reports an error for an exec request, the callback
\* receives that error, once and with no result; the handler builds no
\* result set, starts no populate step (nothing throws) and the exec issues
\* no request besides the one that failed.
C15_ClientErrorIsForwarded ==
    \A c \in Calls :
        Refused(c)
        => /\ calls[c].cbs = <<Cb("error", NoResult)>>
           /\ ~calls[c].threw
           /\ ReqsOf(c) = 1
           /\ Len(calls[c].resp) = 1

C15_Witness ==
    \E c \in Calls :
        /\ Refused(c)
        /\ calls[c].resp[1].options.populate # ""
        /\ ~calls[c].resp[1].options.lean
        /\ calls[c].cbs = <<Cb("error", NoResult)>>

\* the kind of value the handler delivers for options h, a criteria whose id
\* is a scalar string or not, and the hits of the response
Shape(h, scalar, hits) ==
    IF h.count THEN "number"
    ELSE LET wrapped == ~h.lean \/ h.populate # ""
         IN IF scalar
            THEN IF hits = <<>> THEN "undefined"
                 ELSE IF wrapped THEN "document" ELSE "hit"
            ELSE IF wrapped THEN "results" ELSE "raw"

\* C23: the result delivered to an exec's callback has the shape that the
\* options had when exec was called, whatever chain methods were invoked on
\* the Query between the dispatch of the request and the response.
C23_OptionsFrozenAtExec ==
    \A c \in Calls :
        (Answered(c) /\ calls[c].cbs # <<>>)
        => \A i \in 1..Len(log) :
              log[i].call = c
              => calls[c].cbs[1].res.t =
                    Shape(log[i].h, IsScalarString(calls[c].pre.id),
                          calls[c].resp[1].hits)

\* the calls whose callback received the first element of the result
\* (undefined when there was none) in place of the collection
Collapsed(c) ==
    /\ Answered(c) /\ calls[c].cbs # <<>>
    /\ calls[c].cbs[1].res.t \in {"document", "hit", "undefined"}

\* C24: a result is collapsed to its first element only if the request was
\* a multi-get for one scalar id; a criteria whose id is the empty string is
\* never sent as a search whose result is collapsed.
C24_CollapseOnlyAfterMget ==
    \A c \in Calls :
        Collapsed(c)
        => \A i \in 1..Len(log) :
              log[i].call = c
              => /\ log[i].type = "mget"
                 /\ IsScalarString(calls[c].pre.id)

\* C5: the ids of a multi-get request are the criteria's id coerced to a
\* flat sequence of ids: never a bare scalar, never nested.
C5_MgetIdsAreFlat ==
    \A i \in 1..Len(log) :
        log[i].type = "mget"
        => /\ log[i].ids.depth = 1
           /\ log[i].ids.v = queries[log[i].q].query.id.v

C7_CallbackExactlyOnce ==
    \A c \in Calls :
        calls[c].hasCb
        => /\ Len(calls[c].cbs) <= 1
           /\ (\A i \in pending : log[i].call # c) => Len(calls[c].cbs) = 1
           /\ calls[c].op = "Model.count" => ReqsOf(c) >= 1

----------------------------------------------------------------------------
(* Claims about the model registry, checked under RegistrySpec *)

\* C16: model(name) for a name that is not registered throws and leaves
\* the registry as it was; model(name) for a registered name returns the
\* constructor stored for it; no call removes an entry; and model(name,
\* schema) for a name that is already registered keeps the constructor that
\* was stored first.
C16_RegistryIsWriteOnce ==
    \A c \in Calls :
        calls[c].op = "model"
        => LET n == calls[c].path
               given == calls[c].schema.given
               pre == calls[c].pre
               post == calls[c].post
           IN /\ (~given /\ n \notin DOMAIN pre) => (calls[c].threw /\ post = pre)
              /\ (~given /\ n \in DOMAIN pre)
                    => (~calls[c].threw /\ calls[c].ret = "constructor")
              /\ DOMAIN pre \subseteq DOMAIN post
              /\ (given /\ n \in DOMAIN pre) => post[n] = pre[n]

----------------------------------------------------------------------------
(* Claims about the batch verbs and Model.update, checked under BatchSpec *)

\* the requests of call c that the client has not answered yet
InFlight(c) == {i \in pending : log[i].call = c}

\* the requests call c has handed to the client for member k
RequestsFor(c, k) == {i \in 1..Len(log) : log[i].call = c /\ log[i].member = k}

\* C21: while a batch verb of a result set, or the populate step of exec,
\* runs, at most 4 members are in flight; no member is started twice; and
\* when the run has ended with no error every member was started, and
\* handed at most one request to the client.
C21_AtMostFourInFlight ==
    \A c \in Batches :
        LET b == calls[c].batch
            n == Len(b.items)
        IN /\ Cardinality(InFlight(c)) <= 4
           /\ Cardinality(b.inflight) <= 4
           /\ \A i, j \in 1..Len(calls[c].started) :
                 i # j => calls[c].started[i] # calls[c].started[j]
           /\ \A k \in 1..n : Cardinality(RequestsFor(c, k)) <= 1
           /\ (~b.errored /\ ~calls[c].threw /\ InFlight(c) = {})
                 => /\ {calls[c].started[i] : i \in 1..Len(calls[c].started)} = 1..n
                    /\ calls[c].op # "Results.populate" /\ calls[c].q = 0
                          => \A k \in 1..n : Cardinality(RequestsFor(c, k)) = 1

C21_Witness ==
    \E c \in Batches :
        /\ calls[c].op = "Results.save"
        /\ Len(calls[c].batch.items) = MaxMembers
        /\ Len(calls[c].started) = MaxMembers
        /\ Cardinality(InFlight(c)) = 4
        /\ calls[c].batch.completed = MaxMembers - 4

\* the batch verbs of a result set that were called with a callback
BatchVerbs == {c \in Batches : calls[c].q = 0}

\* C22: the aggregate callback of a batch verb fires exactly once: with the
\* error as soon as a member reports one, with no error once every member
\* has completed; the verb does not throw; a second completion never fires
\* it again; and no member is started after an error was observed.
C22_AggregateCallbackOnce ==
    \A c \in BatchVerbs :
        LET b == calls[c].batch
        IN /\ ~calls[c].threw
           /\ Len(calls[c].cbs) <= 1
           /\ b.errored => (Len(calls[c].cbs) = 1 /\ calls[c].cbs[1].err = "error")
           /\ (~b.errored /\ InFlight(c) = {}) => calls[c].cbs = <<Cb("none", NoResult)>>
           /\ (calls[c].cbs # <<>> /\ calls[c].cbs[1].err = "none")
                 => b.completed = Len(b.items)
           /\ b.late = 0

\* the index, update and delete requests call c has handed to the client
Writes(c) ==
    {i \in 1..Len(log) : log[i].call = c /\ log[i].type \in {"index", "update", "delete"}}

\* C25: once the lookup of Model.update(query, data, options, callback) is
\* answered: a failed lookup passes the error to the callback, writes
\* nothing and throws nothing; a lookup with no match creates a document
\* from data when options.upsert is set, and otherwise calls back with the
\* empty result and writes nothing; a lookup with matches updates them and
\* indexes nothing. This holds for find and for findOne, and for a scalar
\* string id as criteria.
C25_UpdateHandlesEveryLookup ==
    \A c \in 1..Len(calls) :
        (calls[c].op = "Model.update" /\ calls[c].resp # <<>>) =>
            LET r == calls[c].resp[1]
                rec == calls[c]
                types == {log[i].type : i \in Writes(c)}
            IN /\ ~rec.threw
               /\ r.err # "none"
                    => (Writes(c) = {} /\ Len(rec.cbs) = 1 /\ rec.cbs[1].err = r.err)
               /\ (r.err = "none" /\ r.hits = <<>> /\ rec.options.upsert)
                    => (Cardinality(Writes(c)) = 1 /\ types = {"index"})
               /\ (r.err = "none" /\ r.hits = <<>> /\ ~rec.options.upsert)
                    => (Writes(c) = {} /\ Len(rec.cbs) = 1
                        /\ rec.cbs[1].err = "none" /\ rec.cbs[1].res.items = <<>>
                        /\ rec.cbs[1].res.t = "results")
               /\ (r.err = "none" /\ r.hits # <<>>)
                    => (types \subseteq {"update"}
                        /\ (Writes(c) = {} => rec.cbs # <<>>))

====
